---- MODULE Spec2Model ----
(***************************************************************************)
(* AudioScribe-AI: the transcription service (services/geminiService.ts,   *)
(* transcribeMedia) and the part of the App (App.tsx) that selects a file, *)
(* invokes the service and consumes its result.                            *)
(*                                                                         *)
(* transcribeMedia is an async function: it runs synchronously from one    *)
(* await to the next.  Each segment between two awaits is one operator on  *)
(* a run record; the actions feed the answers of the remote client (and of *)
(* the FileReader and the poll timer) to the segment that awaits them.     *)
(*                                                                         *)
(* The same file and the same remote answers are given to three runs that  *)
(* differ only in the progress sink (logCallback) they were invoked with:  *)
(* no sink, a sink that returns, a sink that throws.  run[sink] is the run *)
(* with that sink; the App's own run is run[AppSink] (it passes addLog).   *)
(*                                                                         *)
(* ServiceSpec and LiveSpec are transcribeMedia on its own: one call with  *)
(* any file, under every answer of the remote client, the App not taking   *)
(* part (its variables stay as constructed).  Spec is the program: the     *)
(* App under all its user events (URL submission, file selection, Start    *)
(* Over, Start AI Transcription), with its progress intervals, with the    *)
(* invocations of startAiProcessing that a later one has overtaken kept in *)
(* earlier, any file and every answer of the FileReader and of the remote  *)
(* client.  The size of the files, the status queries of a run, the        *)
(* overtaken invocations and the firings of an interval between two writes *)
(* of progress are capped per behaviour by scope, which is chosen at the   *)
(* start and never changes.                                                *)
(***************************************************************************)
EXTENDS Integers, Sequences, FiniteSets, TLC

VARIABLES
    appState,       \* App.tsx:42   useState<AppState>
    uploadedFile,   \* App.tsx:48   useState<File | null>
    videoMeta,      \* App.tsx:44   useState<VideoMetadata | null>: "none", "url", "local"
    transcript,     \* App.tsx:45   useState<string>
    progress,       \* App.tsx:46   useState(0)
    logs,           \* App.tsx:49   useState<string[]>: its 'ERROR: ...' lines, each by the message it prints
    conversionStep, \* App.tsx:147  the loop variable i of the latest startAiProcessing
    jobFile,        \* App.tsx:138, 168  the file of the latest call of transcribeMedia (the uploadedFile its startAiProcessing holds)
    awaiting,       \* App.tsx:168  the latest startAiProcessing awaits transcribeMedia
    earlier,        \* invocations of startAiProcessing before the latest, still not at their end
    checks,         \* App.tsx:87   calls of checkSubtitles not yet resolved
    run,            \* one transcribeMedia run per kind of sink, of the latest invocation
    scope           \* the caps of this behaviour: file size, status queries, overtaken invocations, interval firings

vars ==
    <<appState, uploadedFile, videoMeta, transcript, progress, logs, conversionStep,
      jobFile, awaiting, earlier, checks, run, scope>>

---------------------------------------------------------------------------
(* Program constants *)

MaxAttempts == 30           \* geminiService.ts:75  attempts < 30
InlineLimitMB == 20         \* geminiService.ts:43  sizeMB < 20
BytesPerMB == 1024 * 1024   \* geminiService.ts:41
conversionSteps == 3        \* App.tsx:146

---------------------------------------------------------------------------
(* Bounds *)

MaxSizeMB == 30             \* size of a file, in MiB
MaxPolls == 2               \* status queries of a run of the App
MaxEarlier == 1             \* invocations of startAiProcessing kept beside the latest
MaxTicks == 10              \* firings of an interval between two writes of progress by a handler
MaxChecks == 1              \* calls of checkSubtitles in flight
SideSizeMB == 0             \* size of a file, in MiB, where intervals fire freely or invocations overtake
SideTicks == 1              \* firings of an interval between two writes of progress, where status queries run
Unused == 0                 \* the cap of what a behaviour leaves out

\* The caps a behaviour of the App runs under: sizeMB on the size of the files
\* selected, polls on the status queries of a run, earlier on the overtaken
\* invocations, ticks on the firings of an interval since a handler last wrote
\* progress (the handlers write multiples of ten, so ten firings are as good
\* as any number).  Files of every size with status queries; intervals that
\* fire up to their limit of 95; invocations that overtake one another.
AppScopes ==
    { [sizeMB |-> MaxSizeMB, polls |-> MaxPolls, earlier |-> Unused, ticks |-> SideTicks],
      [sizeMB |-> SideSizeMB, polls |-> Unused, earlier |-> Unused, ticks |-> MaxTicks],
      [sizeMB |-> SideSizeMB, polls |-> Unused, earlier |-> MaxEarlier, ticks |-> Unused] }

\* A call of transcribeMedia on its own: every status query the code allows.
ServiceScope ==
    [sizeMB |-> MaxSizeMB, polls |-> MaxAttempts, earlier |-> Unused, ticks |-> Unused]

---------------------------------------------------------------------------
(* Values *)

\* The progress sinks a caller can pass: none, one that returns, and three that
\* throw: an Error, an Error whose message contains "404", and undefined.
ThrowingSinks == {"throws", "throws404", "throwsUndefined"}
SinkModes == {"none", "ok"} \cup ThrowingSinks
AppSink == "ok"             \* App.tsx:168 passes addLog, which returns

NoFile == [name |-> "", size |-> 0, type |-> "", data |-> ""]

\* The files a user can select: empty, well below, just below and at the inline
\* limit, each with and without a type the browser detected, and one above it.
Files ==
    { [name |-> "clip", size |-> s, type |-> t, data |-> IF s = 0 THEN "" ELSE "QUJD"] :
        s \in {0, 10 * BytesPerMB, 20 * BytesPerMB - 1, 20 * BytesPerMB},
        t \in {"", "video/mp4"} }
    \cup { [name |-> "clip", size |-> 30 * BytesPerMB, type |-> "video/mp4", data |-> "QUJD"] }

\* The files of at most sizeMB MiB.
FilesUpTo(sizeMB) == { file \in Files : file.size <= sizeMB * BytesPerMB }

FileStates == {"PROCESSING", "ACTIVE", "FAILED", "OTHER"}  \* OTHER: undefined or any other
Uris == {"", "uri/f1"}                                     \* "": missing or empty (falsy)
MimeTypes == {"audio/mp3"}

\* A file object of the File API as the service reads it.  nullish: the value is
\* null or undefined; falsy: it is a falsy value that is not nullish ("", 0, false).
NoFileObj ==
    [nullish |-> TRUE, falsy |-> TRUE, uri |-> "", state |-> "OTHER",
     name |-> "", mimeType |-> ""]

FileObjs ==
    { [nullish |-> FALSE, falsy |-> FALSE, uri |-> u, state |-> s,
       name |-> "files/f1", mimeType |-> mt] :
        u \in Uris, s \in FileStates, mt \in MimeTypes }

FalsyFileObj == [NoFileObj EXCEPT !.nullish = FALSE]

\* What ai.files.upload and ai.files.get resolve to: null/undefined, the file
\* object itself, or an envelope { file: ... } around it.  has404: the JSON text
\* of the response contains "404".
NullResponse ==
    [nullish |-> TRUE, falsy |-> TRUE, file |-> NoFileObj, uri |-> "",
     state |-> "OTHER", name |-> "", mimeType |-> "", has404 |-> FALSE]

DirectResponse(f, h) ==
    [nullish |-> FALSE, falsy |-> FALSE, file |-> NoFileObj, uri |-> f.uri,
     state |-> f.state, name |-> f.name, mimeType |-> f.mimeType, has404 |-> h]

EnvelopeResponse(f, h) ==
    [nullish |-> FALSE, falsy |-> FALSE, file |-> f, uri |-> "",
     state |-> "OTHER", name |-> "", mimeType |-> "", has404 |-> h]

UploadResponses ==
    {NullResponse}
    \cup { DirectResponse(f, h) : f \in FileObjs, h \in BOOLEAN }
    \cup { EnvelopeResponse(f, h) : f \in FileObjs \cup {FalsyFileObj}, h \in BOOLEAN }

\* The file object a status query answers with: its state is the news; its uri
\* and mimeType need not repeat those of the upload's answer.
GetFileObjs ==
    { [nullish |-> FALSE, falsy |-> FALSE, uri |-> "uri/f2", state |-> s,
       name |-> "files/f1", mimeType |-> "video/webm"] : s \in FileStates }

GetResponses ==
    {NullResponse}
    \cup { DirectResponse(f, FALSE) : f \in GetFileObjs }
    \cup { EnvelopeResponse(f, FALSE) : f \in GetFileObjs }

\* What ai.models.generateContent resolves to.  text "": absent or empty.
GenerateResponses ==
    { [text |-> t, finishReason |-> "STOP", blockReason |-> ""] :
        t \in {"transcript A", "transcript B"} }
    \cup { [text |-> "", finishReason |-> fr, blockReason |-> br] :
        fr \in {"", "STOP", "MAX_TOKENS"}, br \in {"", "SAFETY"} }

\* reader.result of the FileReader, split at ',': <<prefix, base64Content>>;
\* <<>> is a null result.  An empty file reads as "data:" (no ',') or as a
\* prefix with nothing after the ','.
ReaderResults == { <<>>, <<"data:video/mp4;base64", "QUJD">> }
EmptyReaderResults == { <<>>, <<"data:">>, <<"data:video/mp4;base64", "">> }
ReaderResultsOf(file) == IF file.size = 0 THEN EmptyReaderResults ELSE ReaderResults

---------------------------------------------------------------------------
(* Thrown values.  kind: where the value comes from; form: what the catch     *)
(* blocks find in its message property; has404: message.includes('404') is   *)
(* truthy.  "Error": the message is a non-empty string; "array": the message *)
(* is an array, which has an includes of its own ({message: ['404']});       *)
(* "noMessage": the value is not nullish and its message is undefined, null  *)
(* or "" (a thrown string, an event); "noIncludes": the message is a truthy  *)
(* value without includes ({message: 404}); "nullish": the value itself is   *)
(* undefined or null.                                                        *)

Err(kind, has404, detail) ==
    [kind |-> kind, form |-> "Error", has404 |-> has404, detail |-> detail]
NonError(kind, form, has404) ==
    [kind |-> kind, form |-> form, has404 |-> has404, detail |-> <<>>]
NoError == Err("none", FALSE, <<>>)

\* What a call of the remote client can reject with.
ThrownValues ==
    { Err("TransportError", h, <<>>) : h \in BOOLEAN }
    \cup { NonError("TransportError", "array", h) : h \in BOOLEAN }
    \cup { NonError("TransportError", f, FALSE) : f \in {"noMessage", "noIncludes", "nullish"} }

\* What a throwing sink throws.
SinkThrown(sink) ==
    CASE sink = "throws404" -> Err("SinkError", TRUE, <<>>)
      [] sink = "throwsUndefined" -> NonError("SinkError", "nullish", FALSE)
      [] OTHER -> Err("SinkError", FALSE, <<>>)

---------------------------------------------------------------------------
(* A run of transcribeMedia *)

\* What the run did, in order: the events it handed to the sink and the calls
\* it issued to the remote client.
LogEntry(k, ref) == [t |-> "log", k |-> k, part |-> "", mime |-> "", ref |-> ref]
CallEntry(op, part, mime, ref) == [t |-> "call", k |-> op, part |-> part, mime |-> mime, ref |-> ref]

NoPart == [part |-> "", mimeType |-> "", ref |-> ""]

\* response: <<>> until the generate call resolves, then <<its answer>>.
\* pc: "idle" not invoked; "awaitRead", "awaitUpload", "sleep", "awaitGet",
\* "awaitGenerate": suspended at that await; "done": settled.
\* errAt, fatalAt, reference: bookkeeping of the remote client, not of the run: the
\* number of calls issued when a remote call first threw (errAt), and when an
\* upload or a generate call first threw (fatalAt), 0 when none did; reference is
\* <<>> until the upload resolves, then <<what its answer carried>>.
InitRun ==
    [pc |-> "idle", trace |-> <<>>, fileState |-> "", fileUri |-> "", fileName |-> "",
     mimeType |-> "", attempts |-> 0, contentPart |-> NoPart, response |-> <<>>,
     outcome |-> "pending", result |-> "", raised |-> NoError, error |-> NoError,
     errAt |-> 0, fatalAt |-> 0, reference |-> <<>>]

IsCall(e) == e.t = "call"
IsLog(e) == e.t = "log"
Calls(r) == SelectSeq(r.trace, IsCall)
Events(r) == SelectSeq(r.trace, IsLog)
CallsOf(r, op) == SelectSeq(r.trace, LAMBDA e : e.t = "call" /\ e.k = op)
EventsOf(r, k) == SelectSeq(r.trace, LAMBDA e : e.t = "log" /\ e.k = k)

\* Rethrow that passes every value on as it is.
RethrowUnchanged(e) == e

\* geminiService.ts:152-159: the catch block.  error.message?.includes('404')
\* throws a TypeError itself when error is nullish (reading 'message') or when
\* the message has no includes; when includes answers true (a string that
\* contains "404", an array that holds '404') the API Error (404) replaces the
\* value; any other value is thrown on as it is.
Rethrow(e) ==
    IF e.form \in {"nullish", "noIncludes"} THEN Err("TypeError", FALSE, <<>>)
    ELSE IF e.has404 THEN Err("Api404", TRUE, <<>>)
    ELSE e

\* A catch block that swallows the error and returns an empty text.
ThrowSwallowed(r, e) ==
    [r EXCEPT !.pc = "done", !.outcome = "resolved", !.raised = e]

\* An exception inside the try block: the run rejects with what the catch throws.
Throw(r, e) ==
    [r EXCEPT !.pc = "done", !.outcome = "rejected", !.raised = e, !.error = Rethrow(e)]

\* geminiService.ts:133
Return(r, text) ==
    [r EXCEPT !.pc = "done", !.outcome = "resolved", !.result = text]

\* The rest of a segment (next, computed from q) runs only if q has not thrown.
Then(q, next) == IF q.pc = "done" THEN q ELSE next

\* if (logCallback) logCallback(msg): no sink, a sink that returns, a sink that throws.
logCallback(r, sink, k, ref) ==
    IF sink = "none" THEN r
    ELSE IF sink \in ThrowingSinks
         THEN Throw([r EXCEPT !.trace = Append(@, LogEntry(k, ref))], SinkThrown(sink))
         ELSE [r EXCEPT !.trace = Append(@, LogEntry(k, ref))]

\* The run issues a remote call and suspends until it settles.
Issue(r, pc, op, part, mime, ref) ==
    [r EXCEPT !.pc = pc, !.trace = Append(@, CallEntry(op, part, mime, ref))]

\* (x as any).file ?? x
Unwrap(resp) == IF ~resp.file.nullish THEN resp.file ELSE resp

\* SendRequest whose generate call is part of the if (logCallback) statement.
SendRequestInSinkBranch(r, sink) ==
    IF sink = "none"
    THEN Throw(r, Err("TypeError", FALSE, <<>>))
    ELSE LET q == logCallback(r, sink, "sendingRequest", "") IN
         Then(q, Issue(q, "awaitGenerate", "generate",
                       q.contentPart.part, q.contentPart.mimeType, q.contentPart.ref))

\* geminiService.ts:105-107
SendRequest(r, sink) ==
    LET q == logCallback(r, sink, "sendingRequest", "") IN
    Then(q, Issue(q, "awaitGenerate", "generate",
                  q.contentPart.part, q.contentPart.mimeType, q.contentPart.ref))

\* AfterLoop without the test of lines 91-93.
AfterLoopNoFailedTest(r, sink) ==
    LET q == logCallback(r, sink, "fileReady", "") IN
    Then(q, SendRequest(
                [q EXCEPT !.contentPart =
                    [part |-> "fileData", mimeType |-> q.mimeType, ref |-> q.fileUri]],
                sink))

\* AfterLoop that also rejects a file still PROCESSING when the attempts are used up.
AfterLoopTimeout(r, sink) ==
    IF r.fileState = "FAILED"
    THEN Throw(r, Err("ProcessingFailed", FALSE, <<>>))
    ELSE IF r.fileState = "PROCESSING"
    THEN Throw(r, Err("Timeout", FALSE, <<>>))
    ELSE AfterLoopNoFailedTest(r, sink)

\* geminiService.ts:91-102
AfterLoop(r, sink) ==
    IF r.fileState = "FAILED"
    THEN Throw(r, Err("ProcessingFailed", FALSE, <<>>))
    ELSE LET q == logCallback(r, sink, "fileReady", "") IN
         Then(q, SendRequest(
                     [q EXCEPT !.contentPart =
                         [part |-> "fileData", mimeType |-> q.mimeType, ref |-> q.fileUri]],
                     sink))

\* LoopContinues without the bound on the attempts.
LoopContinuesUnbounded(r) == r.fileState = "PROCESSING"

\* geminiService.ts:75
LoopContinues(r) == r.fileState = "PROCESSING" /\ r.attempts < MaxAttempts

\* PollLoop that reports no processing event.
PollLoopSilent(r, sink) ==
    IF LoopContinues(r)
    THEN [r EXCEPT !.pc = "sleep"]
    ELSE AfterLoop(r, sink)

\* PollLoop that leaves the loop at once, whatever the state of the file.
PollLoopSkipped(r, sink) == AfterLoop(r, sink)

\* geminiService.ts:75-77: the loop test, and the head of an iteration up to its delay.
PollLoop(r, sink) ==
    IF LoopContinues(r)
    THEN LET q == logCallback(r, sink, "processing", r.fileState) IN
         Then(q, [q EXCEPT !.pc = "sleep"])
    ELSE AfterLoop(r, sink)

\* Invoke that uploads every file, whatever its size.
InvokeAlwaysUploads(file, sink) ==
    LET r0 == [InitRun EXCEPT !.pc = "running"]
        q == logCallback(r0, sink, "uploadStart", "") IN
    Then(q, Issue(q, "awaitUpload", "upload", "",
                  IF file.type # "" THEN file.type ELSE "audio/mp3", file.name))

\* Invoke whose inline branch also takes a file of exactly the limit.
InvokeInlineAtLimit(file, sink) ==
    LET r0 == [InitRun EXCEPT !.pc = "running"] IN
    IF file.size <= InlineLimitMB * BytesPerMB
    THEN LET q == logCallback(r0, sink, "inline", "") IN
         Then(q, [q EXCEPT !.pc = "awaitRead"])
    ELSE LET q == logCallback(r0, sink, "uploadStart", "") IN
         Then(q, Issue(q, "awaitUpload", "upload", "",
                       IF file.type # "" THEN file.type ELSE "audio/mp3", file.name))

\* geminiService.ts:35-56: from the call to the first await.
\* sizeMB < 20 with sizeMB = size / (1024 * 1024), over the integers.
Invoke(file, sink) ==
    LET r0 == [InitRun EXCEPT !.pc = "running"] IN
    IF file.size < InlineLimitMB * BytesPerMB
    THEN LET q == logCallback(r0, sink, "inline", "") IN
         Then(q, [q EXCEPT !.pc = "awaitRead"])
    ELSE LET q == logCallback(r0, sink, "uploadStart", "") IN
         Then(q, Issue(q, "awaitUpload", "upload", "",
                       IF file.type # "" THEN file.type ELSE "audio/mp3", file.name))

\* geminiService.ts:12-24, 46: the FileReader has loaded.  split(',')[1] is
\* undefined ("" here) when the result has no ','.
ReadReturns(r, sink, file, result) ==
    IF result = <<>>
    THEN Throw(r, Err("ReadFailed", FALSE, <<>>))
    ELSE SendRequest(
             [r EXCEPT !.contentPart =
                 [part |-> "inlineData", mimeType |-> file.type,
                  ref |-> IF Len(result) > 1 THEN result[2] ELSE ""]],
             sink)

\* geminiService.ts:25: reader.onerror rejects with the event, which has no message.
ReadFails(r) == Throw(r, NonError("ReaderEvent", "noMessage", FALSE))

\* UploadReturns without the test of lines 62-65.
UploadReturnsUnchecked(r, sink, resp) ==
    IF resp.nullish
    THEN Throw(r, Err("TypeError", FALSE, <<>>))
    ELSE LET uploaded == Unwrap(resp)
             q == logCallback(r, sink, "uploadComplete", uploaded.uri) IN
         Then(q, PollLoop(
                     [q EXCEPT !.fileState = uploaded.state, !.fileUri = uploaded.uri,
                               !.fileName = uploaded.name, !.mimeType = uploaded.mimeType,
                               !.attempts = 0],
                     sink))

\* geminiService.ts:60-75: the upload has resolved.
UploadReturns(r, sink, resp) ==
    IF resp.nullish
    THEN Throw(r, Err("TypeError", FALSE, <<>>))
    ELSE LET uploaded == Unwrap(resp) IN
         IF uploaded.falsy \/ uploaded.uri = ""
         THEN Throw(r, Err("UploadFailed", resp.has404, <<>>))
         ELSE LET q == logCallback(r, sink, "uploadComplete", uploaded.uri) IN
              Then(q, PollLoop(
                          [q EXCEPT !.fileState = uploaded.state, !.fileUri = uploaded.uri,
                                    !.fileName = uploaded.name, !.mimeType = uploaded.mimeType,
                                    !.attempts = 0],
                          sink))

\* RemoteThrows that issues the failed call once more before giving up.
RemoteThrowsRetried(r, e) ==
    IF r.fatalAt = Len(Calls(r))
    THEN [r EXCEPT !.trace = Append(@, Calls(r)[Len(Calls(r))])]
    ELSE Throw(r, e)

\* The upload or the generate call has thrown e: it reaches the catch block.
RemoteThrows(r, e) == Throw(r, e)

\* geminiService.ts:77-81: the delay is over, the status query is issued.
TimerFires(r) == Issue(r, "awaitGet", "get", "", "", r.fileName)

\* GetReturns that takes the uri and the mime type, too, from the status answer.
GetReturnsRefreshesHandle(r, sink, resp) ==
    LET q == IF resp.nullish THEN r
             ELSE [r EXCEPT !.fileState = Unwrap(resp).state,
                            !.fileUri = Unwrap(resp).uri,
                            !.mimeType = Unwrap(resp).mimeType] IN
    PollLoop([q EXCEPT !.attempts = @ + 1], sink)

\* geminiService.ts:81-88, then the loop test: the status query has resolved.
\* A null answer throws inside the inner try and is caught like a thrown query.
GetReturns(r, sink, resp) ==
    LET q == IF resp.nullish THEN r ELSE [r EXCEPT !.fileState = Unwrap(resp).state] IN
    PollLoop([q EXCEPT !.attempts = @ + 1], sink)

\* GetThrows that lets the error of the status query end the run.
GetThrowsAborts(r, sink) == Throw(r, Err("TransportError", FALSE, <<>>))

\* geminiService.ts:85-88, then the loop test: the status query has thrown.
GetThrows(r, sink) ==
    PollLoop([r EXCEPT !.attempts = @ + 1], sink)

\* geminiService.ts:137-148
Diagnostics(response) ==
    <<IF response.finishReason # "" /\ response.finishReason # "STOP"
      THEN response.finishReason ELSE "",
      response.blockReason>>

\* GenerateReturns that returns response.text whatever it is.
GenerateReturnsAnyText(r, response) ==
    Return([r EXCEPT !.response = <<response>>], response.text)

\* geminiService.ts:132-150: the generate call has resolved.
GenerateReturns(r, response) ==
    LET q == [r EXCEPT !.response = <<response>>] IN
    IF response.text # ""
    THEN Return(q, response.text)
    ELSE Throw(q, Err("NoTranscript", FALSE, Diagnostics(response)))

\* The remote client's bookkeeping of a call that threw.
MarkThrow(r, op) ==
    [r EXCEPT !.errAt = IF @ = 0 THEN Len(Calls(r)) ELSE @,
              !.fatalAt = IF @ = 0 /\ op # "get" THEN Len(Calls(r)) ELSE @]

\* The reference an upload's answer carries: none when the answer is null; else
\* that of the file object inside the envelope if there is one, of the answer
\* itself if not; absent when that object is a falsy value; quoted404 when the
\* reference is not usable and the JSON text of the answer contains "404".
Reference(resp) ==
    IF resp.nullish
    THEN [null |-> TRUE, absent |-> TRUE, uri |-> "", mimeType |-> "", quoted404 |-> FALSE]
    ELSE IF ~resp.file.nullish
         THEN [null |-> FALSE, absent |-> resp.file.falsy, uri |-> resp.file.uri,
               mimeType |-> resp.file.mimeType,
               quoted404 |-> resp.has404 /\ (resp.file.falsy \/ resp.file.uri = "")]
         ELSE [null |-> FALSE, absent |-> FALSE, uri |-> resp.uri,
               mimeType |-> resp.mimeType,
               quoted404 |-> resp.has404 /\ resp.uri = ""]

\* The remote client's bookkeeping of the upload's answer.
MarkAnswer(r, resp) == [r EXCEPT !.reference = <<Reference(resp)>>]

---------------------------------------------------------------------------
(* The App: file selection, startAiProcessing, and what it does with the result *)

\* error.message of a value that has a truthy one, by the value it belongs to.
Message(e) == [kind |-> e.kind, has404 |-> e.has404, detail |-> e.detail]

\* App.tsx:180: the text "Unknown error".
UnknownError == [kind |-> "Unknown error", has404 |-> FALSE, detail |-> <<>>]

\* App.tsx:180: the line 'ERROR: ' + (error.message || "Unknown error"), for a
\* value transcribeMedia rejects with (which is never nullish): any truthy
\* message is printed, a string as well as an array or a number.
ErrorLine(e) ==
    IF e.form \in {"Error", "array", "noIncludes"} THEN Message(e) ELSE UnknownError

\* An invocation of startAiProcessing that has not run to its end: it is in its
\* conversion loop or awaits transcribeMedia.
Busy == conversionStep # 0 \/ awaiting

InitWith(sc) ==
    /\ scope = sc
    /\ appState = "IDLE"
    /\ uploadedFile = NoFile
    /\ videoMeta = "none"
    /\ transcript = ""
    /\ progress = 0
    /\ logs = <<>>
    /\ conversionStep = 0
    /\ jobFile = NoFile
    /\ awaiting = FALSE
    /\ earlier = <<>>
    /\ checks = 0
    /\ run = [m \in SinkModes |-> InitRun]

Init == \E sc \in AppScopes : InitWith(sc)

\* The state before a call of transcribeMedia on its own.
ServiceInit == InitWith(ServiceScope)

\* App.tsx:116-134 (the input is rendered in IDLE only, App.tsx:211-254)
DirectFileUpload(file) ==
    /\ appState = "IDLE"
    /\ uploadedFile' = file
    /\ videoMeta' = "local"
    /\ appState' = "FILE_READY"
    /\ logs' = <<>>
    /\ UNCHANGED <<scope, transcript, progress, conversionStep, jobFile, awaiting, earlier, checks, run>>

\* App.tsx:137-148: the click on Start AI Transcription (rendered in FILE_READY
\* and in NO_SUBS with a file, App.tsx:328-346 and 429-434), up to the first
\* delay of the conversion loop.  The invocation keeps the file it was started
\* with.  An invocation that has not run to its end goes on beside the new one.
startAiProcessing ==
    /\ appState \in {"FILE_READY", "NO_SUBS"}
    /\ uploadedFile # NoFile
    /\ Busy => Len(earlier) < scope.earlier
    /\ appState' = "PROCESSING_AUDIO"
    /\ progress' = 10
    /\ conversionStep' = 1
    /\ jobFile' = uploadedFile
    /\ awaiting' = FALSE
    /\ earlier' = IF Busy
                  THEN Append(earlier, [conversionStep |-> conversionStep,
                                        awaiting |-> awaiting, file |-> jobFile,
                                        run |-> run[AppSink]])
                  ELSE earlier
    /\ run' = [m \in SinkModes |-> InitRun]
    /\ UNCHANGED <<scope, uploadedFile, videoMeta, transcript, logs, checks>>

\* App.tsx:147-168: a delay of the conversion loop is over; after the last one
\* the App moves to TRANSCRIBING and calls transcribeMedia(uploadedFile, addLog),
\* which runs to its first await.
conversionTimer ==
    /\ conversionStep \in 1..conversionSteps
    /\ progress' = 10 + conversionStep * 10
    /\ IF conversionStep < conversionSteps
       THEN /\ conversionStep' = conversionStep + 1
            /\ UNCHANGED <<appState, awaiting, run>>
       ELSE /\ conversionStep' = 0
            /\ appState' = "TRANSCRIBING"
            /\ awaiting' = TRUE
            /\ run' = [m \in SinkModes |-> Invoke(jobFile, m)]
    /\ UNCHANGED <<scope, uploadedFile, videoMeta, transcript, logs, jobFile, earlier, checks>>

\* settle, without the log line of the catch block.
settleUnlogged ==
    /\ awaiting
    /\ run[AppSink].pc = "done"
    /\ awaiting' = FALSE
    /\ IF run[AppSink].outcome = "resolved"
       THEN /\ transcript' = run[AppSink].result
            /\ appState' = "COMPLETED"
            /\ progress' = 100
            /\ UNCHANGED logs
       ELSE /\ appState' = "ERROR"
            /\ UNCHANGED <<transcript, progress, logs>>
    /\ UNCHANGED <<scope, uploadedFile, videoMeta, conversionStep, jobFile, earlier, checks, run>>

\* App.tsx:168-176 and 177-183: transcribeMedia has settled.
settle ==
    /\ awaiting
    /\ run[AppSink].pc = "done"
    /\ awaiting' = FALSE
    /\ IF run[AppSink].outcome = "resolved"
       THEN /\ transcript' = run[AppSink].result
            /\ appState' = "COMPLETED"
            /\ progress' = 100
            /\ UNCHANGED logs
       ELSE /\ logs' = Append(logs, ErrorLine(run[AppSink].error))
            /\ appState' = "ERROR"
            /\ UNCHANGED <<transcript, progress>>
    /\ UNCHANGED <<scope, uploadedFile, videoMeta, conversionStep, jobFile, earlier, checks, run>>

---------------------------------------------------------------------------
(* The remote client, the FileReader and the poll timer answer the runs *)

appVars ==
    <<appState, uploadedFile, videoMeta, transcript, progress, logs, conversionStep,
      jobFile, awaiting, earlier, checks, scope>>

Awaited(pc) == \E m \in SinkModes : run[m].pc = pc

\* Every run suspended at the same await takes the same answer.

readReturn ==
    \E result \in ReaderResultsOf(jobFile) :
        /\ Awaited("awaitRead")
        /\ run' = [m \in SinkModes |->
                      IF run[m].pc = "awaitRead"
                      THEN ReadReturns(run[m], m, jobFile, result)
                      ELSE run[m]]
        /\ UNCHANGED appVars

readError ==
    /\ Awaited("awaitRead")
    /\ run' = [m \in SinkModes |->
                  IF run[m].pc = "awaitRead"
                  THEN ReadFails(run[m])
                  ELSE run[m]]
    /\ UNCHANGED appVars

uploadReturn ==
    \E resp \in UploadResponses :
        /\ Awaited("awaitUpload")
        /\ run' = [m \in SinkModes |->
                      IF run[m].pc = "awaitUpload"
                      THEN UploadReturns(MarkAnswer(run[m], resp), m, resp)
                      ELSE run[m]]
        /\ UNCHANGED appVars

uploadThrow ==
    \E e \in ThrownValues :
        /\ Awaited("awaitUpload")
        /\ run' = [m \in SinkModes |->
                      IF run[m].pc = "awaitUpload"
                      THEN RemoteThrows(MarkThrow(run[m], "upload"), e)
                      ELSE run[m]]
        /\ UNCHANGED appVars

pollTimer ==
    /\ Awaited("sleep")
    /\ \A m \in SinkModes : run[m].pc = "sleep" => run[m].attempts < scope.polls
    /\ run' = [m \in SinkModes |->
                  IF run[m].pc = "sleep"
                  THEN TimerFires(run[m])
                  ELSE run[m]]
    /\ UNCHANGED appVars

getReturn ==
    \E resp \in GetResponses :
        /\ Awaited("awaitGet")
        /\ run' = [m \in SinkModes |->
                      IF run[m].pc = "awaitGet"
                      THEN GetReturns(run[m], m, resp)
                      ELSE run[m]]
        /\ UNCHANGED appVars

getThrow ==
    /\ Awaited("awaitGet")
    /\ run' = [m \in SinkModes |->
                  IF run[m].pc = "awaitGet"
                  THEN GetThrows(MarkThrow(run[m], "get"), m)
                  ELSE run[m]]
    /\ UNCHANGED appVars

generateReturn ==
    \E response \in GenerateResponses :
        /\ Awaited("awaitGenerate")
        /\ run' = [m \in SinkModes |->
                      IF run[m].pc = "awaitGenerate"
                      THEN GenerateReturns(run[m], response)
                      ELSE run[m]]
        /\ UNCHANGED appVars

generateThrow ==
    \E e \in ThrownValues :
        /\ Awaited("awaitGenerate")
        /\ run' = [m \in SinkModes |->
                      IF run[m].pc = "awaitGenerate"
                      THEN RemoteThrows(MarkThrow(run[m], "generate"), e)
                      ELSE run[m]]
        /\ UNCHANGED appVars

Answers ==
    \/ readReturn
    \/ readError
    \/ uploadReturn
    \/ uploadThrow
    \/ pollTimer
    \/ getReturn
    \/ getThrow
    \/ generateReturn
    \/ generateThrow

\* geminiService.ts:34-50: transcribeMedia is called with a file, once with each
\* kind of sink, and runs up to its first await.  jobFile is the file of the call.
transcribeMedia ==
    \E file \in FilesUpTo(scope.sizeMB) :
        /\ \A m \in SinkModes : run[m].pc = "idle"
        /\ jobFile' = file
        /\ run' = [m \in SinkModes |-> Invoke(file, m)]
        /\ UNCHANGED <<scope, appState, uploadedFile, videoMeta, transcript, progress, logs,
                       conversionStep, awaiting, earlier, checks>>

ServiceNext ==
    \/ transcribeMedia
    \/ Answers

ServiceSpec == ServiceInit /\ [][ServiceNext]_vars

\* Every call to the remote client, every file read and every delay ends: the
\* runs are not starved.
LiveSpec == ServiceSpec /\ WF_vars(Answers)

---------------------------------------------------------------------------
(* Properties *)

Gets(r) == Len(CallsOf(r, "get"))
Generates(r) == Len(CallsOf(r, "generate"))

\* C1: on the upload path, a handle whose state is FAILED when the poll loop
\* ends (from the upload's answer or from a status query) ends the run with an
\* error: no generate call is issued and no text is returned.
FailedHandleAbortsRun ==
    \A m \in SinkModes :
        run[m].fileState = "FAILED" =>
            /\ run[m].pc = "done"
            /\ run[m].outcome = "rejected"
            /\ run[m].error # NoError
            /\ Generates(run[m]) = 0
            /\ run[m].result = ""

\* C1 happens: a status query answered FAILED after at least one PROCESSING answer.
FailedHandleSeen ==
    /\ run["ok"].fileState = "FAILED"
    /\ run["ok"].attempts >= 2
    /\ run["none"].fileState = "FAILED"

\* C2: a generate answer without text (absent or empty) makes the run fail;
\* a run that resolves returns a non-empty text, never "" for a missing transcript.
NoTextIsAnError ==
    \A m \in SinkModes :
        /\ (run[m].response # <<>> /\ run[m].response[1].text = "") =>
               (run[m].pc = "done" /\ run[m].outcome = "rejected" /\ run[m].result = "")
        /\ run[m].outcome = "resolved" =>
               (run[m].result # "" /\ run[m].response # <<>>
                /\ run[m].result = run[m].response[1].text)

\* C2 happens: the generate call resolved without text.
NoTextSeen ==
    /\ run["ok"].response # <<>>
    /\ run["ok"].response[1].text = ""
    /\ Generates(run["ok"]) = 1

\* C3: a run issues at most 30 status queries, whatever the remote answers, the
\* loop is left once the attempts are used up, and every run whose remote calls
\* end settles.
PollLoopBounded ==
    /\ [](\A m \in SinkModes :
            /\ Gets(run[m]) <= MaxAttempts
            /\ run[m].attempts <= MaxAttempts
            /\ run[m].attempts = MaxAttempts => run[m].pc \notin {"sleep", "awaitGet"})
    /\ \A m \in SinkModes : (run[m].pc # "idle") ~> (run[m].pc = "done")

\* C3 happens: a run that issued all 30 status queries has settled.
PollLoopExhausted ==
    /\ Gets(run["ok"]) = MaxAttempts
    /\ run["ok"].pc = "done"

\* C4: when the 30 attempts are used up with the handle still PROCESSING the run
\* does not fail there: it emits the ready event and issues the generate call
\* for that handle; only the generate call can still fail it.
ExhaustedPollingProceeds ==
    \A m \in {"none", "ok"} :
        (run[m].attempts = MaxAttempts /\ run[m].fileState = "PROCESSING") =>
            /\ Generates(run[m]) = 1
            /\ CallsOf(run[m], "generate")[1].ref = run[m].fileUri
            /\ m = "ok" => Len(EventsOf(run[m], "fileReady")) = 1
            /\ run[m].pc \in {"awaitGenerate", "done"}
            /\ run[m].outcome = "rejected" =>
                   run[m].raised.kind \in {"TransportError", "NoTranscript"}

\* C4 happens: 30 attempts used up, the handle still PROCESSING.
ExhaustedWhileProcessing ==
    /\ run["ok"].attempts = MaxAttempts
    /\ run["ok"].fileState = "PROCESSING"
    /\ run["ok"].outcome = "resolved"

\* C5 as stated: every error of a remote operation (upload, status query or
\* generate) aborts the run: after the first remote call that threw, the run
\* issues no further remote call.
AnyRemoteErrorAborts ==
    \A m \in SinkModes :
        run[m].errAt # 0 => Len(Calls(run[m])) = run[m].errAt

\* C5 as amended: an error thrown by the upload or by the generate call aborts
\* the run at once: the run rejects on it, the failed call is the last thing
\* the run did, and it is not issued again.  An error thrown by a status query
\* is caught and the loop goes on: the run never rejects with it.
UploadOrGenerateErrorAborts ==
    \A m \in SinkModes :
        /\ run[m].fatalAt # 0 =>
              /\ run[m].pc = "done"
              /\ run[m].outcome = "rejected"
              /\ run[m].raised.kind = "TransportError"
              /\ Len(Calls(run[m])) = run[m].fatalAt
              /\ IsCall(run[m].trace[Len(run[m].trace)])
              /\ run[m].trace[Len(run[m].trace)].k \in {"upload", "generate"}
              /\ Len(CallsOf(run[m], "upload")) <= 1
              /\ Generates(run[m]) <= 1
        /\ run[m].raised.kind = "TransportError" => run[m].fatalAt # 0

\* C5 happens: the generate call threw after a status query had thrown.
GenerateThrewAfterPollThrew ==
    /\ run["ok"].errAt # 0
    /\ run["ok"].fatalAt > run["ok"].errAt
    /\ Generates(run["ok"]) = 1

\* C6 as stated: an upload answer without a usable reference (the answer, after
\* unwrapping an envelope, is absent or has no uri) makes the run fail with the
\* upload error before any status query and any generate call.
UnusableUploadIsUploadError ==
    \A m \in SinkModes :
        (run[m].reference # <<>>
            /\ (run[m].reference[1].absent \/ run[m].reference[1].uri = "")) =>
            /\ run[m].pc = "done"
            /\ run[m].outcome = "rejected"
            /\ run[m].error.kind = "UploadFailed"
            /\ Gets(run[m]) = 0
            /\ Generates(run[m]) = 0

\* C6 as amended: such an answer makes the run fail before any status query and
\* any generate call, and before the upload-complete event.  The caller gets
\* the upload error; but an answer that is itself null or undefined fails with
\* the TypeError of unwrapping it, and an upload error whose text (it quotes the
\* JSON of the answer) contains "404" reaches the caller as the API Error (404).
UnusableUploadFails ==
    \A m \in SinkModes :
        (run[m].reference # <<>>
            /\ (run[m].reference[1].absent \/ run[m].reference[1].uri = "")) =>
            /\ run[m].pc = "done"
            /\ run[m].outcome = "rejected"
            /\ run[m].error.kind =
                   (IF run[m].reference[1].null THEN "TypeError"
                    ELSE IF run[m].reference[1].quoted404 THEN "Api404"
                    ELSE "UploadFailed")
            /\ Gets(run[m]) = 0
            /\ Generates(run[m]) = 0
            /\ EventsOf(run[m], "uploadComplete") = <<>>
            /\ EventsOf(run[m], "processing") = <<>>

\* C6 happens: the upload resolved to an object without a uri.
UnusableUploadSeen ==
    /\ run["ok"].reference # <<>>
    /\ ~run["ok"].reference[1].null
    /\ ~run["ok"].reference[1].absent
    /\ run["ok"].reference[1].uri = ""
    /\ run["ok"].error.kind = "UploadFailed"
    /\ run["none"].reference = run["ok"].reference

\* The place of an entry of the trace in the order of the milestones.
Rank(e) ==
    CASE e.t = "log" /\ e.k = "uploadStart" -> 1
      [] e.t = "call" /\ e.k = "upload" -> 2
      [] e.t = "log" /\ e.k = "uploadComplete" -> 3
      [] e.t = "log" /\ e.k = "processing" -> 4
      [] e.t = "call" /\ e.k = "get" -> 4
      [] e.t = "log" /\ e.k = "fileReady" -> 5
      [] e.t = "log" /\ e.k = "sendingRequest" -> 6
      [] e.t = "call" /\ e.k = "generate" -> 7
      [] OTHER -> 0

\* C8: on the upload path the sink gets the events in the order of the
\* milestones and none is missing: upload-start before the upload; upload-complete
\* right after the upload returned a uri, with that uri; one processing event
\* right before each status query; file-ready once the loop is left without
\* FAILED; sending-request after it and right before the generate call.
EventsInMilestoneOrder ==
    LET r == run["ok"]
        tr == r.trace
        n == Len(tr)
        IsEv(i, k) == i \in 1..n /\ tr[i].t = "log" /\ tr[i].k = k
        IsOp(i, k) == i \in 1..n /\ tr[i].t = "call" /\ tr[i].k = k
    IN  (n > 0 /\ tr[1].k # "inline") =>
            /\ IsEv(1, "uploadStart")
            /\ n >= 2 => IsOp(2, "upload")
            /\ n >= 3 => IsEv(3, "uploadComplete")
            /\ \A i \in 1..n :
                  /\ Rank(tr[i]) > 0
                  /\ i < n => Rank(tr[i]) <= Rank(tr[i + 1])
                  /\ IsEv(i, "uploadStart") => i = 1
                  /\ IsOp(i, "upload") => i = 2
                  /\ IsEv(i, "uploadComplete") =>
                        (i = 3 /\ r.reference # <<>> /\ r.reference[1].uri # ""
                         /\ tr[i].ref = r.reference[1].uri)
                  /\ IsOp(i, "get") => IsEv(i - 1, "processing")
                  /\ IsEv(i, "processing") => (i = n \/ IsOp(i + 1, "get"))
                  /\ IsEv(i, "fileReady") =>
                        /\ IsEv(i - 1, "uploadComplete") \/ IsOp(i - 1, "get")
                        /\ r.fileState # "FAILED"
                        /\ r.fileState # "PROCESSING" \/ Gets(r) = MaxAttempts
                        /\ IsEv(i + 1, "sendingRequest")
                  /\ IsEv(i, "sendingRequest") =>
                        (IsEv(i - 1, "fileReady") /\ IsOp(i + 1, "generate"))
                  /\ IsOp(i, "generate") => (i = n /\ IsEv(i - 1, "sendingRequest"))
            /\ Len(EventsOf(r, "processing")) = Gets(r) + (IF r.pc = "sleep" THEN 1 ELSE 0)
            /\ Len(Events(r)) + Len(Calls(r)) = n

\* C8 happens: a run on the upload path took every milestone, with status queries.
AllMilestonesSeen ==
    /\ Gets(run["ok"]) >= 2
    /\ Generates(run["ok"]) = 1
    /\ Len(EventsOf(run["ok"], "fileReady")) = 1
    /\ run["ok"].outcome = "resolved"

\* C9 as stated: a sink that throws does not change the run: once both have
\* settled, the run with the throwing sink has issued the same remote calls and
\* has the same outcome as the run with a sink that returns.
ThrowingSinkChangesNothing ==
    (run["throws"].pc = "done" /\ run["ok"].pc = "done") =>
        /\ Calls(run["throws"]) = Calls(run["ok"])
        /\ run["throws"].outcome = run["ok"].outcome
        /\ run["throws"].result = run["ok"].result
        /\ run["throws"].error = run["ok"].error

\* C10: with the same file and the same remote answers the run with a sink (that
\* returns) and the run without one are at the same await, have issued the same
\* remote calls and have the same outcome, text and error.
SinkIsObservational ==
    /\ Calls(run["ok"]) = Calls(run["none"])
    /\ run["ok"].pc = run["none"].pc
    /\ run["ok"].outcome = run["none"].outcome
    /\ run["ok"].result = run["none"].result
    /\ run["ok"].error = run["none"].error
    /\ run["none"].trace = Calls(run["none"])

\* C10 happens: both runs resolved after an upload and status queries, and the
\* sink received events.
BothRunsResolved ==
    /\ run["ok"].outcome = "resolved"
    /\ run["none"].outcome = "resolved"
    /\ Gets(run["none"]) >= 1
    /\ Len(Events(run["ok"])) >= 5
    /\ Events(run["none"]) = <<>>

---------------------------------------------------------------------------
(* The media a run hands to the remote service *)

maxUnitMB == 15             \* the unit threshold of the chunked pipeline

\* The unit sizes the claims are checked for.
UnitSizes == {maxUnitMB * BytesPerMB, InlineLimitMB * BytesPerMB}

\* geminiService.ts:45-56: a call that carries media: the upload of the file, or
\* the generate call with the file's bytes inline.
CarriesMedia(e) ==
    /\ e.t = "call"
    /\ e.k = "upload" \/ (e.k = "generate" /\ e.part = "inlineData")

\* geminiService.ts:45, 54: each such call is handed the File itself, all of
\* its bytes: the byte ranges the run has handed over, in the order of the calls.
MediaUnits(r, file) ==
    [i \in 1..Len(SelectSeq(r.trace, CarriesMedia)) |->
        [index |-> i - 1, startByte |-> 0, endByte |-> file.size]]

Ceil(a, b) == (a + b - 1) \div b

\* ranges is a plan of sizeBytes in units of at most maxUnitBytes.
IsPlan(ranges, sizeBytes, maxUnitBytes) ==
    /\ Len(ranges) = IF sizeBytes <= maxUnitBytes THEN 1 ELSE Ceil(sizeBytes, maxUnitBytes)
    /\ \A i \in 1..Len(ranges) :
        /\ ranges[i].index = i - 1
        /\ ranges[i].startByte = IF i = 1 THEN 0 ELSE ranges[i - 1].endByte
        /\ ranges[i].endByte > ranges[i].startByte
        /\ ranges[i].endByte - ranges[i].startByte <= maxUnitBytes
    /\ Len(ranges) > 0 => ranges[Len(ranges)].endByte = sizeBytes

\* C11: the byte ranges a run that returned a text has handed to the remote
\* service are a plan of the (non-empty) media for every unit size: indexed from
\* 0 in ascending byte order, contiguous, from 0 to the size, none longer than
\* the unit; one range when the size is at most the unit, else ceil(size / unit).
MediaHandedOverInUnits ==
    \A m \in SinkModes : \A maxUnitBytes \in UnitSizes :
        (run[m].outcome = "resolved" /\ jobFile.size > 0) =>
            IsPlan(MediaUnits(run[m], jobFile), jobFile.size, maxUnitBytes)

\* C12: a run on empty media (0 bytes) issues no remote call (no upload, no
\* status query, no generate call) and ends with the error InvalidInput.
EmptyMediaIsRejected ==
    \A m \in SinkModes :
        (jobFile.size = 0 /\ run[m].pc # "idle") =>
            /\ Calls(run[m]) = <<>>
            /\ run[m].pc = "done"
            /\ run[m].outcome = "rejected"
            /\ run[m].error.kind = "InvalidInput"

Uploads(r) == Len(CallsOf(r, "upload"))

\* C13 as stated: a run that returned a text for media of at most the unit
\* threshold (15 MiB) has issued exactly one upload, gone through the poll loop
\* once, issued exactly one generate call, and its text has no part marker.
SmallMediaIsOneUploadedPart ==
    \A m \in SinkModes :
        (run[m].outcome = "resolved" /\ jobFile.size <= maxUnitMB * BytesPerMB) =>
            /\ Uploads(run[m]) = 1
            /\ run[m].reference # <<>>
            /\ Generates(run[m]) = 1
            /\ run[m].result = run[m].response[1].text

\* C13: a run on media of at most the unit threshold (15 MiB) sends the media
\* inline: it issues no upload and no status query, and at most one generate
\* call, whose part is the inline data of the file with the file's type; when
\* it returns a text it has issued exactly one generate call and the text is
\* that of the call's answer, with no marker added.
SmallMediaIsOneInlinePart ==
    \A m \in SinkModes :
        (run[m].pc # "idle" /\ jobFile.size <= maxUnitMB * BytesPerMB) =>
            /\ Uploads(run[m]) = 0
            /\ Gets(run[m]) = 0
            /\ run[m].reference = <<>>
            /\ Generates(run[m]) <= 1
            /\ \A i \in 1..Len(Calls(run[m])) :
                /\ Calls(run[m])[i].part = "inlineData"
                /\ Calls(run[m])[i].mime = jobFile.type
            /\ run[m].outcome = "resolved" =>
                /\ Generates(run[m]) = 1
                /\ run[m].result = run[m].response[1].text

\* C13 happens: a run on a file of 10 MiB returned a text.
SmallMediaTranscribed ==
    /\ jobFile.size = 10 * BytesPerMB
    /\ run["ok"].outcome = "resolved"
    /\ Generates(run["ok"]) = 1
    /\ run["ok"].result = "transcript A"

\* The places, among the remote calls of r, of those that carry media.
MediaCalls(r) == { i \in 1..Len(Calls(r)) : CarriesMedia(Calls(r)[i]) }

\* The handles of r in flight: handed to the remote service and not yet past
\* inference (the generate call for them has not settled).
HandlesInFlight(r) ==
    Cardinality(MediaCalls(r))
    - (Generates(r) - (IF r.pc = "awaitGenerate" THEN 1 ELSE 0))

---------------------------------------------------------------------------
(* The text of a multi-part result, line by line *)

TextLine(t) == [marker |-> 0, text |-> t]
MarkerLine(k) == [marker |-> k, text |-> ""]     \* the line "--- Part k ---"

\* geminiService.ts:133: the text a run returns is response.text as it is; no
\* line of it is a marker written by the run.
Lines(text) == <<TextLine(text)>>

\* The texts of the parts in index order, each preceded by its marker, with a
\* blank line between two parts.
RECURSIVE Aggregate(_)
Aggregate(texts) ==
    IF texts = <<>> THEN <<>>
    ELSE LET n == Len(texts) IN
         Aggregate(SubSeq(texts, 1, n - 1))
         \o (IF n > 1 THEN <<TextLine("")>> ELSE <<>>)
         \o <<MarkerLine(n), TextLine(texts[n])>>

PartTexts == { response.text : response \in GenerateResponses } \ {""}

\* C15: a run that returned a text for media of more than one unit (15 MiB) has
\* issued one generate call per part, and its text is the texts of the parts in
\* index order, each preceded by its marker "--- Part k ---" and separated by
\* blank lines.
LargeMediaAggregated ==
    \A m \in SinkModes :
        (run[m].outcome = "resolved" /\ jobFile.size > maxUnitMB * BytesPerMB) =>
            LET n == Ceil(jobFile.size, maxUnitMB * BytesPerMB) IN
            /\ Generates(run[m]) = n
            /\ \E texts \in [1..n -> PartTexts] :
                Lines(run[m].result) = Aggregate(texts)

---------------------------------------------------------------------------
(* The phases of a run *)

\* Where a run is, by the await it is suspended at: reading the file it was
\* called with, awaiting the upload, in the poll loop, awaiting the model,
\* settled.  AGGREGATING (geminiService.ts:132-133) is passed within the step
\* that takes the model's answer.
Phase(r) ==
    CASE r.pc = "idle" -> "NOT_STARTED"
      [] r.pc \in {"running", "awaitRead"} -> "PLANNING"
      [] r.pc = "awaitUpload" -> "UPLOADING"
      [] r.pc \in {"sleep", "awaitGet"} -> "POLLING"
      [] r.pc = "awaitGenerate" -> "INFERRING"
      [] r.pc = "done" /\ r.outcome = "resolved" -> "DONE"
      [] OTHER -> "FAILED"

PhaseOrder(p) ==
    CASE p = "NOT_STARTED" -> 0
      [] p = "PLANNING" -> 1
      [] p = "UPLOADING" -> 2
      [] p = "POLLING" -> 3
      [] p = "INFERRING" -> 4
      [] p = "DONE" -> 6
      [] OTHER -> 7

\* C16: a run moves through its phases forward only (PLANNING, UPLOADING,
\* POLLING, INFERRING, then DONE, or FAILED from any of them); a status query is
\* issued only after the upload has returned; a generate call for an uploaded
\* file is issued only after the upload has returned and the poll loop is left;
\* a run that is DONE or FAILED issues no further call and keeps its outcome.
PhasesInOrder ==
    /\ [](\A m \in SinkModes :
            /\ Gets(run[m]) > 0 =>
                (run[m].reference # <<>> /\ Calls(run[m])[1].k = "upload")
            /\ \A i \in 1..Len(Calls(run[m])) :
                (Calls(run[m])[i].k = "generate" /\ Calls(run[m])[i].part = "fileData") =>
                    /\ run[m].reference # <<>>
                    /\ ~LoopContinues(run[m])
                    /\ \A j \in 1..(i - 1) : Calls(run[m])[j].k \in {"upload", "get"}
            /\ run[m].pc \in {"sleep", "awaitGet"} => Generates(run[m]) = 0)
    /\ [][\A m \in SinkModes :
            /\ Phase(run'[m]) # Phase(run[m]) =>
                PhaseOrder(Phase(run'[m])) > PhaseOrder(Phase(run[m]))
            /\ Phase(run[m]) \in {"DONE", "FAILED"} => run'[m] = run[m]]_vars

\* C16 happens: one run went through upload, status queries and the generate
\* call and is DONE, and the run with the throwing sink is FAILED.
AllPhasesPassed ==
    /\ Phase(run["none"]) = "DONE"
    /\ Uploads(run["none"]) = 1
    /\ Gets(run["none"]) >= 1
    /\ Generates(run["none"]) = 1
    /\ Phase(run["throws"]) = "FAILED"

\* C17: the size of the file against 20 MiB alone decides between inline data
\* and upload, whatever the file's type.  Below 20 MiB a run issues no upload
\* and no status query, and its only remote call is one generate call with the
\* file's bytes inline, issued once the file is read.  From 20 MiB on (20 MiB
\* included) a run sends nothing inline: it issues its one upload first (as soon
\* as it is invoked, unless its sink throws) and its one generate call, for the
\* uploaded file, after it.  A run that returned a text has issued its generate
\* call.
SizeAloneDecides ==
    \A m \in SinkModes :
        LET r == run[m]
            calls == Calls(r) IN
        r.pc # "idle" =>
            IF jobFile.size < 20 * BytesPerMB
            THEN /\ Uploads(r) = 0
                 /\ Gets(r) = 0
                 /\ Generates(r) = Len(calls)
                 /\ Generates(r) = IF r.pc = "awaitGenerate" \/ r.response # <<>> \/ r.fatalAt # 0
                                   THEN 1 ELSE 0
                 /\ \A i \in 1..Len(calls) : calls[i].part = "inlineData"
                 /\ r.outcome = "resolved" => Generates(r) = 1
            ELSE /\ Uploads(r) = IF m \in ThrowingSinks THEN 0 ELSE 1
                 /\ Generates(r) <= 1
                 /\ \A i \in 1..Len(calls) :
                     /\ calls[i].part # "inlineData"
                     /\ calls[i].k = "upload" <=> i = 1
                     /\ calls[i].k = "generate" => (i > 1 /\ calls[i].part = "fileData")
                 /\ r.outcome = "resolved" => Generates(r) = 1

\* C17 happens: a file of exactly 20 MiB was uploaded and then transcribed.
LimitSizedFileUploaded ==
    /\ jobFile.size = 20 * BytesPerMB
    /\ run["ok"].outcome = "resolved"
    /\ Calls(run["ok"])[1].k = "upload"
    /\ Generates(run["ok"]) = 1

PollingKeepsHandle ==
    \A m \in SinkModes :
        /\ run[m].pc \in {"sleep", "awaitGet", "awaitGenerate"} /\ run[m].reference # <<>> =>
            /\ run[m].fileUri = run[m].reference[1].uri
            /\ run[m].mimeType = run[m].reference[1].mimeType
        /\ \A i \in 1..Len(Calls(run[m])) :
            (Calls(run[m])[i].k = "generate" /\ Calls(run[m])[i].part = "fileData") =>
                /\ Calls(run[m])[i].ref = run[m].reference[1].uri
                /\ Calls(run[m])[i].mime = run[m].reference[1].mimeType

\* C19 happens: status queries answered with a file object of another uri and
\* mime type, the last one with the state ACTIVE, and the generate call was issued.
HandlePolledThenSent ==
    /\ Gets(run["ok"]) >= 2
    /\ run["ok"].errAt = 0
    /\ run["ok"].fileState = "ACTIVE"
    /\ Generates(run["ok"]) = 1
    /\ \A f \in GetFileObjs :
        f.uri # run["ok"].reference[1].uri /\ f.mimeType # run["ok"].reference[1].mimeType

---------------------------------------------------------------------------
(* The App with all its user events: URL submission, the fallback file       *)
(* selection, Start Over, and the invocations of startAiProcessing that are  *)
(* still on their way when a later one is started.                           *)

Subtitles == "subtitles"    \* App.tsx:27-30 the text checkSubtitles finds

\* App.tsx:281: the states whose block shows the video card with Start Over.
CardStates ==
    {"CHECKING_SUBS", "SUBS_FOUND", "COMPLETED", "ERROR", "FILE_READY",
     "PROCESSING_AUDIO", "TRANSCRIBING"}

\* App.tsx:59-87: a valid URL is submitted (the form is rendered in IDLE only),
\* up to the await of checkSubtitles.
handleUrlSubmit ==
    /\ appState = "IDLE"
    /\ checks < MaxChecks
    /\ appState' = "CHECKING_SUBS"
    /\ videoMeta' = "url"
    /\ logs' = <<>>
    /\ progress' = 40
    /\ checks' = checks + 1
    /\ UNCHANGED <<scope, uploadedFile, transcript, conversionStep, jobFile, awaiting, earlier, run>>

\* checkSubtitlesReturn without the test of its answer (App.tsx:88).
checkSubtitlesReturnUntested ==
    \E existingSubs \in {"", Subtitles} :
        /\ checks > 0
        /\ checks' = checks - 1
        /\ transcript' = existingSubs
        /\ appState' = "SUBS_FOUND"
        /\ progress' = 100
        /\ UNCHANGED <<scope, uploadedFile, videoMeta, logs, conversionStep, jobFile, awaiting,
                       earlier, run>>

\* App.tsx:20-33, 89-100: checkSubtitles has resolved, with a text or with null.
checkSubtitlesReturn ==
    \E existingSubs \in {"", Subtitles} :
        /\ checks > 0
        /\ checks' = checks - 1
        /\ IF existingSubs # ""
           THEN /\ transcript' = existingSubs
                /\ appState' = "SUBS_FOUND"
                /\ progress' = 100
           ELSE /\ appState' = "NO_SUBS"
                /\ progress' = 50
                /\ UNCHANGED transcript
        /\ UNCHANGED <<scope, uploadedFile, videoMeta, logs, conversionStep, jobFile, awaiting,
                       earlier, run>>

\* App.tsx:116-134: any file can be selected.
handleDirectFileUpload == \E file \in FilesUpTo(scope.sizeMB) : DirectFileUpload(file)

\* App.tsx:108-113 (the input is rendered in NO_SUBS only, App.tsx:404-410)
handleFileUpload ==
    \E file \in FilesUpTo(scope.sizeMB) :
        /\ appState = "NO_SUBS"
        /\ uploadedFile' = file
        /\ UNCHANGED <<scope, appState, videoMeta, transcript, progress, logs, conversionStep,
                       jobFile, awaiting, earlier, checks, run>>

\* App.tsx:186-194: Start Over (App.tsx:283-303, with the video card) or Try
\* Another Video (App.tsx:310-324, in ERROR).  Nothing on its way is cancelled.
resetApp ==
    /\ \/ appState \in CardStates /\ videoMeta # "none"
       \/ appState = "ERROR"
    /\ appState' = "IDLE"
    /\ transcript' = ""
    /\ uploadedFile' = NoFile
    /\ videoMeta' = "none"
    /\ progress' = 0
    /\ logs' = <<>>
    /\ UNCHANGED <<scope, conversionStep, jobFile, awaiting, earlier, checks, run>>

\* What the run r of an earlier invocation, called with file, becomes when the
\* await it is suspended at is answered.
RunAnswers(r, file) ==
    CASE r.pc = "awaitRead" ->
            { ReadReturns(r, AppSink, file, result) : result \in ReaderResultsOf(file) }
            \cup { ReadFails(r) }
      [] r.pc = "awaitUpload" ->
            { UploadReturns(MarkAnswer(r, resp), AppSink, resp) : resp \in UploadResponses }
            \cup { RemoteThrows(MarkThrow(r, "upload"), e) : e \in ThrownValues }
      [] r.pc = "sleep" -> IF r.attempts < scope.polls THEN { TimerFires(r) } ELSE {}
      [] r.pc = "awaitGet" ->
            { GetReturns(r, AppSink, resp) : resp \in GetResponses }
            \cup { GetThrows(MarkThrow(r, "get"), AppSink) }
      [] r.pc = "awaitGenerate" ->
            { GenerateReturns(r, response) : response \in GenerateResponses }
            \cup { RemoteThrows(MarkThrow(r, "generate"), e) : e \in ThrownValues }
      [] OTHER -> {}

\* conversionTimer, for an earlier invocation.
earlierConversionTimer ==
    \E i \in DOMAIN earlier :
        /\ earlier[i].conversionStep \in 1..conversionSteps
        /\ progress' = 10 + earlier[i].conversionStep * 10
        /\ IF earlier[i].conversionStep < conversionSteps
           THEN /\ earlier' = [earlier EXCEPT ![i].conversionStep = @ + 1]
                /\ UNCHANGED appState
           ELSE /\ earlier' = [earlier EXCEPT ![i].conversionStep = 0,
                                              ![i].awaiting = TRUE,
                                              ![i].run = Invoke(earlier[i].file, AppSink)]
                /\ appState' = "TRANSCRIBING"
        /\ UNCHANGED <<scope, uploadedFile, videoMeta, transcript, logs, conversionStep, jobFile,
                       awaiting, checks, run>>

\* The remote client, the FileReader or the poll timer answers the run of an
\* earlier invocation.
earlierAnswer ==
    \E i \in DOMAIN earlier :
        \E q \in RunAnswers(earlier[i].run, earlier[i].file) :
            /\ earlier' = [earlier EXCEPT ![i].run = q]
            /\ UNCHANGED <<scope, appState, uploadedFile, videoMeta, transcript, progress, logs,
                           conversionStep, jobFile, awaiting, checks, run>>

\* settle, for an earlier invocation, which is then at its end.
earlierSettle ==
    \E i \in DOMAIN earlier :
        /\ earlier[i].awaiting
        /\ earlier[i].run.pc = "done"
        /\ earlier' = SubSeq(earlier, 1, i - 1) \o SubSeq(earlier, i + 1, Len(earlier))
        /\ IF earlier[i].run.outcome = "resolved"
           THEN /\ transcript' = earlier[i].run.result
                /\ appState' = "COMPLETED"
                /\ progress' = 100
                /\ UNCHANGED logs
           ELSE /\ logs' = Append(logs, ErrorLine(earlier[i].run.error))
                /\ appState' = "ERROR"
                /\ UNCHANGED <<transcript, progress>>
        /\ UNCHANGED <<scope, uploadedFile, videoMeta, conversionStep, jobFile, awaiting, checks, run>>

\* App.tsx:158-163, 170, 178: the intervals set by the invocations of
\* startAiProcessing and not cleared yet: each is set with the call of
\* transcribeMedia and cleared when the call has settled.
Tickers ==
    (IF awaiting THEN 1 ELSE 0)
    + Cardinality({ i \in DOMAIN earlier : earlier[i].awaiting })

\* progressTick without the cap at 95.
progressTickUncapped ==
    /\ Tickers > 0
    /\ progress % 10 < scope.ticks
    /\ progress' = progress + 1
    /\ UNCHANGED <<scope, appState, uploadedFile, videoMeta, transcript, logs, conversionStep,
                   jobFile, awaiting, earlier, checks, run>>

\* App.tsx:158-163: an interval fires.
progressTick ==
    /\ Tickers > 0
    /\ progress % 10 < scope.ticks
    /\ progress' = IF progress >= 95 THEN progress ELSE progress + 1
    /\ UNCHANGED <<scope, appState, uploadedFile, videoMeta, transcript, logs, conversionStep,
                   jobFile, awaiting, earlier, checks, run>>

Next ==
    \/ handleDirectFileUpload
    \/ handleUrlSubmit
    \/ checkSubtitlesReturn
    \/ handleFileUpload
    \/ startAiProcessing
    \/ resetApp
    \/ conversionTimer
    \/ settle
    \/ readReturn
    \/ readError
    \/ uploadReturn
    \/ uploadThrow
    \/ pollTimer
    \/ getReturn
    \/ getThrow
    \/ generateReturn
    \/ generateThrow
    \/ earlierConversionTimer
    \/ earlierAnswer
    \/ earlierSettle
    \/ progressTick

Spec == Init /\ [][Next]_vars

\* The calls of transcribeMedia made by startAiProcessing that have neither
\* resolved nor rejected.
InFlight(r) == r.pc \notin {"idle", "done"}

RunsInFlight ==
    (IF InFlight(run[AppSink]) THEN 1 ELSE 0)
    + Cardinality({ i \in DOMAIN earlier : InFlight(earlier[i].run) })

\* C20: whatever the user does (select a file, start the transcription, start
\* over, submit a URL) and whenever the pending operations complete, at most one
\* call of transcribeMedia is in flight: none is made while an earlier one has
\* neither resolved nor rejected.
OneRunInFlight == RunsInFlight <= 1

---------------------------------------------------------------------------
(* C21: subtitles found for a URL are final *)

\* C21: once the App is in SUBS_FOUND, no call of transcribeMedia starts and
\* the transcript stays the subtitles that were found, until resetApp (the
\* only step from SUBS_FOUND to IDLE).
FoundSubtitlesAreFinal ==
    [][appState = "SUBS_FOUND" =>
          /\ RunsInFlight' <= RunsInFlight
          /\ (transcript' = transcript \/ appState' = "IDLE")]_vars

---------------------------------------------------------------------------
(* C22: a rejected call of transcribeMedia *)

\* The step in which the catch block of startAiProcessing (App.tsx:177-183) runs
\* with the error e: the await of the latest invocation, or of an earlier one,
\* ends on a call that has rejected with e.
CatchRuns(e) ==
    \/ /\ awaiting
       /\ run[AppSink].pc = "done"
       /\ run[AppSink].outcome = "rejected"
       /\ run[AppSink].error = e
       /\ ~awaiting'
       /\ earlier' = earlier
       /\ run' = run
    \/ \E i \in DOMAIN earlier :
            /\ earlier[i].awaiting
            /\ earlier[i].run.pc = "done"
            /\ earlier[i].run.outcome = "rejected"
            /\ earlier[i].run.error = e
            /\ earlier' = SubSeq(earlier, 1, i - 1) \o SubSeq(earlier, i + 1, Len(earlier))

\* The errors a run of the App has ended on.
ErrorsOf(r) == IF r.pc = "done" /\ r.outcome = "rejected" THEN {r.error} ELSE {}

RejectionErrors ==
    ErrorsOf(run[AppSink]) \cup UNION { ErrorsOf(earlier[i].run) : i \in DOMAIN earlier }

\* What the user can do: select a file, submit a URL, start the transcription,
\* start over.
UserActs ==
    \/ handleDirectFileUpload
    \/ handleUrlSubmit
    \/ handleFileUpload
    \/ startAiProcessing
    \/ resetApp

\* C22: when the call of transcribeMedia made by startAiProcessing rejects, the
\* App moves to ERROR (not to COMPLETED), the transcript is left as it was and
\* exactly one 'ERROR: ...' line carrying the error's message is appended to
\* the logs; and what the user does in ERROR leads to IDLE (resetApp is all
\* the user can do there).
RejectionEndsInError ==
    [][/\ \A e \in RejectionErrors :
            CatchRuns(e) =>
                /\ appState' = "ERROR"
                /\ transcript' = transcript
                /\ Len(logs') = Len(logs) + 1
                /\ SubSeq(logs', 1, Len(logs)) = logs
                /\ e.form \in {"Error", "array"} => logs'[Len(logs')] = Message(e)
                /\ e.form = "noMessage" => logs'[Len(logs')] = UnknownError
       /\ (appState = "ERROR" /\ UserActs) => (resetApp /\ appState' = "IDLE")]_vars

\* C22 (witness): a call has rejected while the App showed the subtitles it had
\* found: the App is in ERROR, the transcript is still there and the logs hold
\* the one line of that error.
RejectionLogged ==
    /\ appState = "ERROR"
    /\ ~awaiting
    /\ run[AppSink].outcome = "rejected"
    /\ transcript = Subtitles
    /\ run[AppSink].error.kind = "NoTranscript"
    /\ logs = <<Message(run[AppSink].error)>>

---------------------------------------------------------------------------
(* C23: the App after resetApp *)

\* The state resetApp leaves (App.tsx:186-194), which is also the initial one.
IsReset ==
    /\ appState = "IDLE"
    /\ videoMeta = "none"
    /\ uploadedFile = NoFile
    /\ transcript = ""
    /\ progress = 0

\* C23: after resetApp the App stays reset until the user acts again: a
\* subtitle check or a call of transcribeMedia that was pending at the reset,
\* when it completes or fails later, moves appState nowhere, sets no
\* transcript and leaves progress alone.
StaysReset ==
    [][(IsReset /\ ~UserActs) =>
          /\ appState' = "IDLE"
          /\ transcript' = transcript
          /\ progress' = progress]_vars

---------------------------------------------------------------------------
(* C24: a status query that throws *)

\* C24: an error thrown by a status query does not end the run: it uses up one
\* of the 30 attempts, leaves the state of the handle as it was last known, and
\* the loop goes on with the next delay; when it was the 30th attempt the loop
\* is left with the handle still PROCESSING and the generate call is issued.
\* So a run whose status queries all throw reaches the generate call after 30
\* attempts.
PollErrorIsSkipped ==
    [][getThrow =>
          \A m \in SinkModes :
              run[m].pc = "awaitGet" =>
                  /\ run'[m].outcome = "pending"
                  /\ run'[m].attempts = run[m].attempts + 1
                  /\ run'[m].fileState = run[m].fileState
                  /\ run'[m].fileState = "PROCESSING"
                  /\ Gets(run'[m]) = Gets(run[m])
                  /\ IF run[m].attempts + 1 < MaxAttempts
                     THEN run'[m].pc = "sleep" /\ Generates(run'[m]) = 0
                     ELSE run'[m].pc = "awaitGenerate" /\ Generates(run'[m]) = 1]_vars

\* C24 happens: the status queries threw from the first one on, the 30 attempts
\* are used up, the handle is still PROCESSING and the generate call is awaited.
PollErrorsUsedAllAttempts ==
    /\ run["ok"].errAt = 2
    /\ run["ok"].fatalAt = 0
    /\ Gets(run["ok"]) = MaxAttempts
    /\ run["ok"].attempts = MaxAttempts
    /\ run["ok"].fileState = "PROCESSING"
    /\ run["ok"].pc = "awaitGenerate"

---------------------------------------------------------------------------
(* C25: the progress ticker *)

\* C25: the interval that raises progress is set only while a call of
\* transcribeMedia is awaited and is cleared when the call resolves or rejects:
\* in every state in which appState is not TRANSCRIBING (IDLE after resetApp,
\* COMPLETED, ERROR, ...) no interval is left that can still change progress.
TickerOnlyWhileTranscribing == appState # "TRANSCRIBING" => Tickers = 0

---------------------------------------------------------------------------
(* C26: the range of progress *)

\* A step of an interval: it changes progress and nothing else.
TickerStep ==
    /\ Tickers > 0
    /\ progress' # progress
    /\ UNCHANGED <<scope, appState, uploadedFile, videoMeta, transcript, logs, conversionStep,
                   jobFile, awaiting, earlier, checks, run>>

\* C26: progress is always between 0 and 100; an interval never raises it above
\* 95; and it is 100 only with a transcript that was obtained (subtitles found
\* or a transcription that succeeded).
ProgressInRange ==
    /\ [](progress \in 0..100)
    /\ [](progress = 100 => transcript # "")
    /\ [][TickerStep => (progress' = progress + 1 /\ progress' <= 95)]_vars

\* C26 happens: the interval has raised progress from 40 to its cap while the
\* call of transcribeMedia is awaited.
TickerAtCap ==
    /\ progress = 95
    /\ Tickers > 0
    /\ appState = "TRANSCRIBING"

---------------------------------------------------------------------------
(* C27: the transcript viewer *)

\* C27: whatever the user does and whenever the pending operations complete, in
\* SUBS_FOUND and in COMPLETED (the states that render the transcript viewer)
\* the transcript is not empty.
ViewerHasTranscript ==
    appState \in {"SUBS_FOUND", "COMPLETED"} => transcript # ""

\* C27 happens: a call of transcribeMedia that was pending at a resetApp has
\* resolved after it, and the App shows the viewer with no file selected.
ViewerShownAfterReset ==
    /\ appState = "COMPLETED"
    /\ videoMeta = "none"
    /\ uploadedFile = NoFile
    /\ transcript # ""

---------------------------------------------------------------------------
(* C7: the two outcomes of a run *)

\* The runs of the App: that of the latest invocation of startAiProcessing
\* (with each kind of sink) and those of the earlier ones.
AllRuns == { run[m] : m \in SinkModes } \cup { earlier[i].run : i \in DOMAIN earlier }

\* The texts of the runs that have resolved.
ResolvedTexts == { r.result : r \in { q \in AllRuns : q.pc = "done" /\ q.outcome = "resolved" } }

\* C7: a run ends in exactly one of two ways: it resolves with the whole text of
\* the generate answer and no error, or it rejects with one error and no text;
\* once settled it stays as it is (until the next invocation takes its place);
\* and the App takes a transcript from a run that resolved only: a run that
\* rejected leaves the transcript as it was.
OneOutcome ==
    /\ [](\A r \in AllRuns :
            /\ r.outcome \in {"pending", "resolved", "rejected"}
            /\ (r.pc = "done") <=> (r.outcome # "pending")
            /\ r.outcome = "resolved" =>
                   /\ r.error = NoError /\ r.raised = NoError
                   /\ r.result # ""
                   /\ r.response # <<>> /\ r.result = r.response[1].text
            /\ r.outcome = "rejected" =>
                   (r.error # NoError /\ r.result = "")
            /\ r.outcome = "pending" =>
                   (r.error = NoError /\ r.result = ""))
    /\ [][/\ \A m \in SinkModes :
                run[m].pc = "done" => run'[m] \in {run[m], InitRun}
           /\ \A e \in RejectionErrors : (CatchRuns(e) => transcript' = transcript)
           /\ (transcript' # transcript /\ transcript' # "") =>
                  transcript' \in {Subtitles} \cup ResolvedTexts]_vars

\* C7 happens: the App has taken the outcome of a run that rejected after the
\* generate call had been issued.
RejectedRunSettled ==
    /\ appState = "ERROR"
    /\ ~awaiting
    /\ Generates(run[AppSink]) = 1
    /\ run[AppSink].outcome = "rejected"

====
